---- MODULE Spec2Model ----
(***************************************************************************)
(* partition_doc (unstructured/partition/doc.py): the adapter that turns a *)
(* legacy .doc document, given by path or by byte stream, into elements by *)
(* staging it in a scoped temporary directory, converting it to .docx with *)
(* an external converter and delegating to partition_docx.                 *)
(*                                                                         *)
(* Python values are records tagged by kind.  A string is read as a path:  *)
(* a directory part and a file name split at its dots, so that "" is       *)
(* Str("", <<"">>) and "/data/simple.doc" is Str("/data", <<"simple",      *)
(* "doc">>).  Each call (CallIds) runs the statements of partition_doc one *)
(* I/O operation per step; log[c] records the I/O the call has performed.  *)
(***************************************************************************)
EXTENDS Integers, Sequences, FiniteSets, TLC

VARIABLES
    pc,                \* c -> the statement call c is at
    args,              \* c -> the arguments call c was made with
    last_modified,     \* c -> local `last_modified` (line 52)
    target_dir,        \* c -> local `target_dir` (line 62), a path without a file name
    source_file_path,  \* c -> local `source_file_path` (line 63)
    target_file_path,  \* c -> local `target_file_path` (line 84)
    elements,          \* c -> local `elements` (line 89); the return value
    error,             \* c -> the exception propagating out of the call
    docx_call,         \* c -> the arguments the call gave partition_docx
    log,               \* c -> the sequence of I/O the call has performed
    files,             \* the filesystem: path -> [data, by]
    dirs,              \* temporary directory name -> the call that made it (0: absent)
    mtime,             \* source path -> its modification counter
    touches            \* how often the environment has modified a source file

locals == <<last_modified, target_dir, source_file_path, target_file_path, elements, docx_call>>
fsvars == <<files, dirs>>
envvars == <<mtime, touches>>
vars == <<pc, args, last_modified, target_dir, source_file_path, target_file_path,
          elements, error, docx_call, log, files, dirs, mtime, touches>>

----
\* Bounds of the model.

\* How often the environment modifies a source file during the calls.
MaxTouches == 1
\* The longest document body (paragraphs) a caller's stream holds.
MaxParagraphs == 2

CallIds == {1, 2}

----
\* Python values.

None == [kind |-> "None"]
Str(d, n) == [kind |-> "str", dir |-> d, name |-> n]
EmptyStr == Str("", <<"">>)
Stream(t, b) == [kind |-> "file", truthy |-> t, data |-> [fmt |-> "doc", body |-> b]]

\* Python truth value: None and "" are falsy; an object is falsy when its
\* __bool__/__len__ says so.
Truthy(v) ==
    /\ v # None
    /\ v # EmptyStr
    /\ (v.kind = "file" => v.truthy)

\* Python `a or b`.
Or(a, b) == IF Truthy(a) THEN a ELSE b

----
\* Paths.

Cwd == "/work"
DataDir == "/data"
TmpNames == {"/tmp/tmpA", "/tmp/tmpB"}

\* os.path.abspath: a relative path is resolved against the working directory.
abspath(p) == IF p.dir = "" THEN Str(Cwd, p.name) ELSE p

\* os.path.split(...)[1]
split_tail(p) == p.name

\* os.path.splitext(...)[0]: everything before the last dot, leading dots
\* not counting as an extension separator.
splitext_root(n) ==
    IF Len(n) > 1 /\ (\E i \in 1..(Len(n) - 1) : n[i] # "")
    THEN SubSeq(n, 1, Len(n) - 1)
    ELSE n

\* os.path.join(target_dir, f"{base_filename}.docx")
join_docx(d, base) == Str(d, base \o <<"docx">>)

----
\* The filesystem the calls run against, and the arguments callers pass.

\* Source documents on disk: an absolute path and one relative to Cwd.
SimpleDoc == Str(DataDir, <<"simple", "doc">>)
ArchiveDoc == Str("", <<"archive", "v2", "doc">>)
\* A path at which nothing exists.
MissingDoc == Str(DataDir, <<"asdf", "doc">>)

Doc(b) == [fmt |-> "doc", body |-> b]
Docx(b) == [fmt |-> "docx", body |-> b]

SourceFiles ==
    (SimpleDoc :> [data |-> Doc(<<11, 12>>), by |-> 0])
    @@ (abspath(ArchiveDoc) :> [data |-> Doc(<<21>>), by |-> 0])

Bodies == {[i \in 1..n |-> i] : n \in 1..MaxParagraphs}

Filenames == {None, EmptyStr, SimpleDoc, ArchiveDoc, MissingDoc}
Streams == {Stream(t, b) : t \in BOOLEAN, b \in Bodies}
MetadataFilenames == {None, EmptyStr, Str("", <<"test">>)}
MetadataDates == {None, EmptyStr, Str("", <<"2020-07-05T09:24:28">>)}
Filters == {None, Str("", <<"MS Word 2007 XML">>)}
Options == {"chunking_strategy", "detect_language_per_element"}
\* The options that ask for post-partitioning processing.
PostProcessingOptions == {"chunking_strategy"}

AllArgs ==
    [filename : Filenames, file : {None} \cup Streams,
     metadata_filename : MetadataFilenames,
     metadata_last_modified : MetadataDates,
     libre_office_filter : Filters, kwargs : SUBSET Options]

\* The arguments of the concurrent calls: the two input kinds, all other
\* arguments at their defaults but the filename override.
ConcArgs ==
    [filename : {None, SimpleDoc},
     file : {None} \cup {Stream(TRUE, b) : b \in Bodies},
     metadata_filename : {None, Str("", <<"test">>)},
     metadata_last_modified : {None},
     libre_office_filter : {Str("", <<"MS Word 2007 XML">>)}, kwargs : {{}}]

NoArgs ==
    [filename |-> None, file |-> None, metadata_filename |-> None,
     metadata_last_modified |-> None, libre_office_filter |-> None, kwargs |-> {}]

----
\* Exceptions and I/O events.

Error(t, p) == [kind |-> "error", type |-> t, path |-> p]
UsageError == Error("ValueError: Exactly one of filename and file must be specified", None)
NotFoundError(p) == Error("ValueError: The file does not exist", p)
StreamError == Error("OSError", None)
ConversionError == Error("convert_office_doc failed", None)
PartitionError == Error("partition_docx failed", None)

\* An I/O event: the operation, the path it acted on, a value it was given or
\* returned, the call that had written the file it read (0: no call), and
\* whether the operation returned (TRUE) or raised (FALSE).
Ev(op, arg, val, by, ok) == [op |-> op, arg |-> arg, val |-> val, by |-> by, ok |-> ok]
Logged(c, e) == [log EXCEPT ![c] = Append(@, e)]

\* The positions in log[c] of the events of kind op.
Positions(c, op) == {i \in 1..Len(log[c]) : log[c][i].op = op}
Count(c, op) == Cardinality(Positions(c, op))

----
\* Collaborators outside this module.

\* exactly_one(filename=..., file=...): exactly one argument is given.
exactly_one(filename, file) == (filename # None) # (file # None)

Timestamp(n) == Str("", <<ToString(n)>>)
\* get_last_modified_date(filename): the file's timestamp, None when there
\* is no file at the path.
get_last_modified_date(p) ==
    IF abspath(p) \in DOMAIN mtime THEN Timestamp(mtime[abspath(p)]) ELSE None

\* os.path.exists(filename)
exists(p) == abspath(p) \in DOMAIN files

Put(f, p, v) == [q \in DOMAIN f \cup {p} |-> IF q = p THEN v ELSE f[q]]
RmTree(f, d) == [q \in {r \in DOMAIN f : r.dir # d} |-> f[q]]

\* The base name the converter gives its output: the source's, extension dropped.
ConvertedStem(n) ==
    IF Len(n) > 1 /\ (\E i \in 1..(Len(n) - 1) : n[i] # "")
    THEN SubSeq(n, 1, Len(n) - 1)
    ELSE n

\* convert_office_doc(source, out_dir, target_format, target_filter): what the
\* converter can convert, and the file it then writes into out_dir.
Convertible(src, outdir) ==
    /\ src # None
    /\ abspath(src) \in DOMAIN files
    /\ files[abspath(src)].data.fmt = "doc"
    /\ dirs[outdir] # 0
ConvertedPath(src, outdir, fmt) == Str(outdir, ConvertedStem(src.name) \o <<fmt>>)

\* The filename partition_docx records: the metadata filename's base name,
\* else the base name of the file it was given.
DocxFilename(metadata_filename, filename) ==
    IF metadata_filename # None
    THEN Str("", metadata_filename.name)
    ELSE Str("", filename.name)

List(items) == [kind |-> "list", items |-> items]

\* partition_docx(filename, metadata_filename, metadata_file_type,
\* metadata_last_modified, **kwargs): one element per paragraph, each carrying
\* the metadata given; post-processing is applied when kwargs ask for it.
Partitionable(call) ==
    /\ call.filename \in DOMAIN files
    /\ files[call.filename].data.fmt = "docx"
partition_docx(call) ==
    LET body == files[call.filename].data.body
    IN  List([i \in 1..Len(body) |->
                [text |-> body[i],
                 filename |-> DocxFilename(call.metadata_filename, call.filename),
                 filetype |-> call.metadata_file_type,
                 last_modified |-> call.metadata_last_modified,
                 chunked |-> call.kwargs \cap PostProcessingOptions # {}]])

----
\* The state before any call.

Init ==
    /\ pc = [c \in CallIds |-> "idle"]
    /\ args = [c \in CallIds |-> NoArgs]
    /\ last_modified = [c \in CallIds |-> None]
    /\ target_dir = [c \in CallIds |-> None]
    /\ source_file_path = [c \in CallIds |-> None]
    /\ target_file_path = [c \in CallIds |-> None]
    /\ elements = [c \in CallIds |-> None]
    /\ error = [c \in CallIds |-> None]
    /\ docx_call = [c \in CallIds |-> None]
    /\ log = [c \in CallIds |-> <<>>]
    /\ files = SourceFiles
    /\ dirs = [d \in TmpNames |-> 0]
    /\ mtime = [p \in DOMAIN SourceFiles |-> 0]
    /\ touches = 0

Goto(c, label) == pc' = [pc EXCEPT ![c] = label]
Raise(c, e) == error' = [error EXCEPT ![c] = e]

----
\* partition_doc, statement by statement.

\* A caller invokes partition_doc(filename, file, metadata_filename,
\* metadata_last_modified, libre_office_filter, **kwargs).
Call(c, A) ==
    /\ pc[c] = "idle"
    /\ \E a \in A : args' = [args EXCEPT ![c] = a]
    /\ Goto(c, "exactly_one")
    /\ UNCHANGED <<locals, error, log, fsvars, envvars>>

\* Variant of ExactlyOne that drops the validation: the call always goes on.
ExactlyOneUnchecked(c) ==
    /\ pc[c] = "exactly_one"
    /\ Goto(c, "get_last_modified")
    /\ UNCHANGED <<args, locals, error, log, fsvars, envvars>>

\* exactly_one(filename=filename, file=file)
ExactlyOne(c) ==
    /\ pc[c] = "exactly_one"
    /\ IF exactly_one(args[c].filename, args[c].file)
       THEN Goto(c, "get_last_modified") /\ UNCHANGED error
       ELSE Goto(c, "raised") /\ Raise(c, UsageError)
    /\ UNCHANGED <<args, locals, log, fsvars, envvars>>

\* last_modified = get_last_modified_date(filename) if filename else None
GetLastModified(c) ==
    /\ pc[c] = "get_last_modified"
    /\ IF Truthy(args[c].filename)
       THEN LET t == get_last_modified_date(args[c].filename)
            IN  /\ last_modified' = [last_modified EXCEPT ![c] = t]
                /\ log' = Logged(c, Ev("get_last_modified_date", args[c].filename, t, 0, TRUE))
       ELSE /\ last_modified' = [last_modified EXCEPT ![c] = None]
            /\ UNCHANGED log
    /\ Goto(c, "exists")
    /\ UNCHANGED <<args, target_dir, source_file_path, target_file_path, elements,
                   docx_call, error, fsvars, envvars>>

\* Variant of path_missing with the existence test inverted.
path_missing_inverted(filename) == filename # None /\ exists(filename)

\* filename is not None and not os.path.exists(filename)
path_missing(filename) == filename # None /\ ~exists(filename)

\* if filename is not None and not os.path.exists(filename): raise ValueError(...)
ValidatePath(c) ==
    /\ pc[c] = "exists"
    /\ IF path_missing(args[c].filename)
       THEN Goto(c, "raised") /\ Raise(c, NotFoundError(args[c].filename))
       ELSE Goto(c, "TemporaryDirectory") /\ UNCHANGED error
    /\ log' = IF args[c].filename # None
              THEN Logged(c, Ev("exists", args[c].filename, None, 0, TRUE))
              ELSE log
    /\ UNCHANGED <<args, locals, fsvars, envvars>>

\* Variant of FreshTmpNames that can name a directory that already exists, so
\* that two calls can share one.
AnyTmpNames == TmpNames

\* The names tempfile.TemporaryDirectory() can give the new directory: those
\* at which nothing exists.
FreshTmpNames == {d \in TmpNames : dirs[d] = 0}

\* f"{target_dir}/document.doc" if file is not None else filename
SourceFilePath(d, filename, file) ==
    IF file # None THEN Str(d, <<"document", "doc">>) ELSE filename

\* with tempfile.TemporaryDirectory() as target_dir: source_file_path = ...
EnterTemporaryDirectory(c) ==
    /\ pc[c] = "TemporaryDirectory"
    /\ \E d \in FreshTmpNames :
        /\ dirs' = [dirs EXCEPT ![d] = c]
        /\ target_dir' = [target_dir EXCEPT ![c] = Str(d, <<>>)]
        /\ source_file_path' =
               [source_file_path EXCEPT
                    ![c] = SourceFilePath(d, args[c].filename, args[c].file)]
        /\ log' = Logged(c, Ev("mkdtemp", Str(d, <<>>), None, 0, TRUE))
    /\ Goto(c, IF args[c].file # None THEN "write" ELSE "convert")
    /\ UNCHANGED <<args, last_modified, target_file_path, elements, docx_call,
                   error, files, envvars>>

\* with open(source_file_path, "wb") as f: f.write(file.read())
WriteSource(c) ==
    /\ pc[c] = "write"
    /\ dirs[target_dir[c].dir] # 0
    /\ files' = Put(files, source_file_path[c], [data |-> args[c].file.data, by |-> c])
    /\ log' = Logged(c, Ev("write", source_file_path[c], None, 0, TRUE))
    /\ Goto(c, "convert")
    /\ UNCHANGED <<args, locals, error, dirs, envvars>>

\* The same statement raising: open() fails, or file.read() or f.write()
\* fails after open() has created the file.
WriteSourceFails(c) ==
    /\ pc[c] = "write"
    /\ \E created \in BOOLEAN :
        /\ created => dirs[target_dir[c].dir] # 0
        /\ files' = IF created
                    THEN Put(files, source_file_path[c], [data |-> Doc(<<>>), by |-> c])
                    ELSE files
        /\ log' = IF created
                  THEN Logged(c, Ev("write", source_file_path[c], None, 0, FALSE))
                  ELSE log
    /\ Raise(c, StreamError)
    /\ Goto(c, "cleanup")
    /\ UNCHANGED <<args, locals, dirs, envvars>>

\* Variant of TargetFilePath that keeps the source's extension.
TargetFilePathKeepExt(d, source) == join_docx(d, split_tail(abspath(source)))

\* os.path.split(os.path.abspath(source_file_path)), os.path.splitext(...),
\* os.path.join(target_dir, f"{base_filename}.docx")
TargetFilePath(d, source) == join_docx(d, splitext_root(split_tail(abspath(source))))

\* convert_office_doc(source_file_path, target_dir, target_format="docx",
\* target_filter=libre_office_filter) returning, then the target path computed.
ConvertOk(c) ==
    /\ pc[c] = "convert"
    /\ Convertible(source_file_path[c], target_dir[c].dir)
    /\ LET src == files[abspath(source_file_path[c])]
       IN  /\ files' = Put(files, ConvertedPath(source_file_path[c], target_dir[c].dir, "docx"),
                           [data |-> Docx(src.data.body), by |-> c])
           /\ log' = Logged(c, Ev("convert_office_doc", source_file_path[c],
                                  args[c].libre_office_filter, src.by, TRUE))
    /\ target_file_path' =
           [target_file_path EXCEPT ![c] = TargetFilePath(target_dir[c].dir, source_file_path[c])]
    /\ Goto(c, "partition_docx")
    /\ UNCHANGED <<args, last_modified, target_dir, source_file_path, elements,
                   docx_call, error, dirs, envvars>>

\* Variant of ConvertFails that swallows the converter's failure and goes on
\* to partition.
ConvertFailsSwallowed(c) ==
    /\ pc[c] = "convert"
    /\ log' = Logged(c, Ev("convert_office_doc", source_file_path[c],
                           args[c].libre_office_filter, 0, FALSE))
    /\ target_file_path' =
           [target_file_path EXCEPT ![c] = TargetFilePath(target_dir[c].dir, source_file_path[c])]
    /\ Goto(c, "partition_docx")
    /\ UNCHANGED <<args, last_modified, target_dir, source_file_path, elements,
                   docx_call, error, fsvars, envvars>>

\* convert_office_doc raising: the exception leaves the with block.
ConvertFails(c) ==
    /\ pc[c] = "convert"
    /\ log' = Logged(c, Ev("convert_office_doc", source_file_path[c],
                           args[c].libre_office_filter, 0, FALSE))
    /\ Raise(c, ConversionError)
    /\ Goto(c, "cleanup")
    /\ UNCHANGED <<args, locals, fsvars, envvars>>

\* Variants of the two `or` fallbacks that test `is not None` instead of the
\* truth value.
MetadataFilenameArgNotNone(metadata_filename, filename) ==
    IF metadata_filename # None THEN metadata_filename ELSE filename
LastModifiedArgNotNone(metadata_last_modified, lm) ==
    IF metadata_last_modified # None THEN metadata_last_modified ELSE lm

\* metadata_filename=metadata_filename or filename
MetadataFilenameArg(metadata_filename, filename) == Or(metadata_filename, filename)
\* metadata_last_modified=metadata_last_modified or last_modified
LastModifiedArg(metadata_last_modified, lm) == Or(metadata_last_modified, lm)
\* **kwargs
KwargsArg(kwargs) == kwargs
\* FileType.DOC
FileTypeDOC == "application/msword"

\* The arguments of the partition_docx(...) call.
DocxCall(c) ==
    [kind |-> "call",
     filename |-> target_file_path[c],
     metadata_filename |-> MetadataFilenameArg(args[c].metadata_filename, args[c].filename),
     metadata_file_type |-> FileTypeDOC,
     metadata_last_modified |->
         LastModifiedArg(args[c].metadata_last_modified, last_modified[c]),
     kwargs |-> KwargsArg(args[c].kwargs)]

\* elements = partition_docx(...)
PartitionOk(c) ==
    /\ pc[c] = "partition_docx"
    /\ Partitionable(DocxCall(c))
    /\ docx_call' = [docx_call EXCEPT ![c] = DocxCall(c)]
    /\ elements' = [elements EXCEPT ![c] = partition_docx(DocxCall(c))]
    /\ log' = Logged(c, Ev("partition_docx", target_file_path[c], None,
                           files[target_file_path[c]].by, TRUE))
    /\ Goto(c, "cleanup")
    /\ UNCHANGED <<args, last_modified, target_dir, source_file_path, target_file_path,
                   error, fsvars, envvars>>

\* partition_docx raising: the exception leaves the with block.
PartitionFails(c) ==
    /\ pc[c] = "partition_docx"
    /\ docx_call' = [docx_call EXCEPT ![c] = DocxCall(c)]
    /\ log' = Logged(c, Ev("partition_docx", target_file_path[c], None, 0, FALSE))
    /\ Raise(c, PartitionError)
    /\ Goto(c, "cleanup")
    /\ UNCHANGED <<args, last_modified, target_dir, source_file_path, target_file_path,
                   elements, fsvars, envvars>>

\* Variant of Cleaned that removes the staged document only.
CleanedStagedOnly(f, d) ==
    [q \in {r \in DOMAIN f : r # Str(d, <<"document", "doc">>)} |-> f[q]]

\* What TemporaryDirectory.__exit__ leaves of the filesystem.
Cleaned(f, d) == RmTree(f, d)

\* Leaving the with block, normally or by an exception: the directory and
\* everything in it is removed; an exception then propagates.
ExitTemporaryDirectory(c) ==
    /\ pc[c] = "cleanup"
    /\ files' = Cleaned(files, target_dir[c].dir)
    /\ dirs' = [dirs EXCEPT ![target_dir[c].dir] = 0]
    /\ log' = Logged(c, Ev("rmtree", Str(target_dir[c].dir, <<>>), None, 0, TRUE))
    /\ Goto(c, IF error[c] # None THEN "raised" ELSE "set_filename")
    /\ UNCHANGED <<args, locals, error, envvars>>

\* if file: for element in elements: element.metadata.filename = metadata_filename
SetFilename(c) ==
    /\ pc[c] = "set_filename"
    /\ IF Truthy(args[c].file)
       THEN /\ elements' =
                  [elements EXCEPT
                       ![c] = List([i \in 1..Len(@.items) |->
                                       [@.items[i] EXCEPT
                                            !.filename = args[c].metadata_filename]])]
            /\ log' = Logged(c, Ev("set_filename", None, args[c].metadata_filename, 0, TRUE))
       ELSE UNCHANGED <<elements, log>>
    /\ Goto(c, "returned")
    /\ UNCHANGED <<args, last_modified, target_dir, source_file_path, target_file_path,
                   docx_call, error, fsvars, envvars>>

\* The environment modifies a source document, which moves its timestamp.
Touch ==
    /\ touches < MaxTouches
    /\ \E p \in DOMAIN mtime : mtime' = [mtime EXCEPT ![p] = @ + 1]
    /\ touches' = touches + 1
    /\ UNCHANGED <<pc, args, locals, error, log, fsvars>>

----
\* One call, with every combination of arguments.
Next ==
    \/ Call(1, AllArgs)
    \/ ExactlyOne(1)
    \/ GetLastModified(1)
    \/ ValidatePath(1)
    \/ EnterTemporaryDirectory(1)
    \/ WriteSource(1)
    \/ WriteSourceFails(1)
    \/ ConvertOk(1)
    \/ ConvertFails(1)
    \/ PartitionOk(1)
    \/ PartitionFails(1)
    \/ ExitTemporaryDirectory(1)
    \/ SetFilename(1)
    \/ Touch

Spec == Init /\ [][Next]_vars

\* Two calls running concurrently, their steps interleaved.
NextConc ==
    \/ \E c \in CallIds :
        \/ Call(c, ConcArgs)
        \/ ExactlyOne(c)
        \/ GetLastModified(c)
        \/ ValidatePath(c)
        \/ EnterTemporaryDirectory(c)
        \/ WriteSource(c)
        \/ WriteSourceFails(c)
        \/ ConvertOk(c)
        \/ ConvertFails(c)
        \/ PartitionOk(c)
        \/ PartitionFails(c)
        \/ ExitTemporaryDirectory(c)
        \/ SetFilename(c)
    \/ Touch

SpecConc == Init /\ [][NextConc]_vars

----
\* Vocabulary of the properties.

Done(c) == pc[c] \in {"returned", "raised"}
Has(c, op) == Positions(c, op) # {}
Events(c, op) == {log[c][i] : i \in Positions(c, op)}
StreamInput(c) == args[c].file # None /\ args[c].filename = None
PathInput(c) == args[c].filename # None /\ args[c].file = None
\* The call is past exactly_one / past the whole validation.
PastExactlyOne(c) == pc[c] \notin {"idle", "exactly_one"}
PastValidation(c) == pc[c] \notin {"idle", "exactly_one", "get_last_modified", "exists"}
\* The call has touched nothing: no I/O, no directory, no collaborator call.
NoTemporaryState(c) ==
    /\ target_dir[c] = None
    /\ \A d \in TmpNames : dirs[d] # c
    /\ \A p \in DOMAIN files : files[p].by # c
    /\ docx_call[c] = None
    /\ elements[c] = None
    /\ ~Has(c, "mkdtemp") /\ ~Has(c, "write") /\ ~Has(c, "convert_office_doc")
    /\ ~Has(c, "partition_docx") /\ ~Has(c, "rmtree") /\ ~Has(c, "set_filename")

----
\* C1: a call given both a path and a stream, or neither, raises the usage
\* error whatever its other arguments are, and has then performed no I/O: no
\* timestamp lookup, no existence check, no temporary directory, no converter
\* call and no partitioner call.
C1_UsageErrorBeforeAnyIO ==
    \A c \in CallIds :
        (PastExactlyOne(c) /\ ((args[c].filename # None) = (args[c].file # None)))
        => /\ pc[c] = "raised"
           /\ error[c] = UsageError
           /\ log[c] = <<>>
           /\ last_modified[c] = None
           /\ NoTemporaryState(c)

\* A call given both inputs, and overrides, has raised the usage error.
C1_Witness ==
    \E c \in CallIds :
        /\ pc[c] = "raised" /\ error[c] = UsageError
        /\ args[c].filename = SimpleDoc /\ args[c].file # None
        /\ Truthy(args[c].metadata_filename)
        /\ "chunking_strategy" \in args[c].kwargs

----
\* C2 as stated: a call with a path, no stream and nothing at the path raises
\* the not-found error carrying the path, before any I/O: no timestamp lookup
\* on the path, no temporary directory, no converter call, no partitioner call.
C2_NotFoundBeforeAnyIO ==
    \A c \in CallIds :
        (PastValidation(c) /\ PathInput(c) /\ abspath(args[c].filename) \notin DOMAIN files)
        => /\ pc[c] = "raised"
           /\ error[c] = NotFoundError(args[c].filename)
           /\ ~Has(c, "get_last_modified_date")
           /\ NoTemporaryState(c)

\* C2 amended: such a call raises the not-found error carrying the path before
\* any temporary directory, converter call or partitioner call; the timestamp
\* lookup on the path has already happened, unless the path is the empty
\* string, and the existence check is the last thing it did.
C2_NotFoundAfterLookup ==
    \A c \in CallIds :
        (PastValidation(c) /\ PathInput(c) /\ abspath(args[c].filename) \notin DOMAIN files)
        => /\ pc[c] = "raised"
           /\ error[c] = NotFoundError(args[c].filename)
           /\ NoTemporaryState(c)
           /\ log[c] =
                  (IF Truthy(args[c].filename)
                   THEN <<Ev("get_last_modified_date", args[c].filename, None, 0, TRUE)>>
                   ELSE <<>>)
                  \o <<Ev("exists", args[c].filename, None, 0, TRUE)>>

\* A call on the missing path has raised the not-found error.
C2_Witness ==
    \E c \in CallIds :
        /\ pc[c] = "raised"
        /\ args[c].filename = MissingDoc
        /\ error[c] = NotFoundError(MissingDoc)

----
\* C3: once a call has returned or raised, the temporary directory it created
\* and every file written into it (the staged document.doc, the converted
\* .docx) no longer exist, whichever way the call ended.
C3_TemporaryDirectoryRemoved ==
    \A c \in CallIds :
        Done(c)
        => /\ \A d \in TmpNames : dirs[d] # c
           /\ \A p \in DOMAIN files : files[p].by # c
           /\ target_dir[c] # None
              => \A p \in DOMAIN files : p.dir # target_dir[c].dir
           /\ Has(c, "mkdtemp") => Has(c, "rmtree")

\* A stream call whose partitioner failed after the document was staged and
\* converted has raised.
C3_Witness ==
    \E c \in CallIds :
        /\ pc[c] = "raised" /\ error[c] = PartitionError
        /\ StreamInput(c)
        /\ \E e \in Events(c, "write") : e.ok
        /\ \E e \in Events(c, "convert_office_doc") : e.ok

----
\* C4: none of the post-processing options the caller passed as extra keyword
\* options (chunking_strategy) reaches the inner partition_docx call.
C4_PostProcessingNotForwarded ==
    \A c \in CallIds :
        docx_call[c] # None => docx_call[c].kwargs \cap PostProcessingOptions = {}

----
\* C5: every element a successful stream call returns carries the caller's
\* metadata_filename override (None when none was given) as its filename,
\* whatever stream object was supplied and whatever filename the partitioner
\* had attached from the temporary file's path.
C5_StreamFilenameIsOverride ==
    \A c \in CallIds :
        (pc[c] = "returned" /\ StreamInput(c))
        => \A i \in 1..Len(elements[c].items) :
               elements[c].items[i].filename = args[c].metadata_filename

----
\* The filename a path call's elements carry when the caller's override does
\* not apply: the base name of the original source path.
SourceBaseName(c) == Str("", args[c].filename.name)
\* The partitioner's result is what the call returns: nothing rewrote it.
ReturnedAsPartitioned(c) ==
    /\ ~Has(c, "set_filename")
    /\ \A i \in 1..Len(elements[c].items) :
        elements[c].items[i].filename =
            Str("", docx_call[c].metadata_filename.name)

----
\* The timestamp the call's lookup returned, when it made one before any
\* converter call; None otherwise.
CapturedTimestamp(c) ==
    IF \E i \in Positions(c, "get_last_modified_date") :
           \A j \in Positions(c, "convert_office_doc") : i < j
    THEN log[c][CHOOSE i \in Positions(c, "get_last_modified_date") : TRUE].val
    ELSE None

\* C7 as stated: the last-modified value handed to the partitioner is the
\* caller's override whenever one is given (any value but None); else, for a
\* path, the timestamp captured before the converter ran; else None.
C7_LastModifiedAnyOverride ==
    \A c \in CallIds :
        docx_call[c] # None
        => docx_call[c].metadata_last_modified =
               (IF args[c].metadata_last_modified # None
                THEN args[c].metadata_last_modified
                ELSE IF PathInput(c) THEN CapturedTimestamp(c) ELSE None)

\* C7 amended: the override is used whenever it is a non-empty string; with no
\* override, or the empty string as override, the value is the timestamp the
\* call captured from the path before the converter ran, and None for a stream.
C7_LastModifiedNonEmptyOverride ==
    \A c \in CallIds :
        docx_call[c] # None
        => /\ docx_call[c].metadata_last_modified =
                  (IF args[c].metadata_last_modified \notin {None, EmptyStr}
                   THEN args[c].metadata_last_modified
                   ELSE IF PathInput(c) THEN CapturedTimestamp(c) ELSE None)
           /\ PathInput(c) => Count(c, "get_last_modified_date") = 1
           /\ StreamInput(c) => Count(c, "get_last_modified_date") = 0

\* A path call with the empty string as override has returned, the source's
\* timestamp having moved after the call captured it.
C7_Witness ==
    \E c \in CallIds :
        /\ pc[c] = "returned" /\ PathInput(c)
        /\ args[c].metadata_last_modified = EmptyStr
        /\ docx_call[c].metadata_last_modified = Timestamp(0)
        /\ mtime[abspath(args[c].filename)] = 1

----
\* What concurrent calls must not do to each other.

StagedPath(c) == Str(target_dir[c].dir, <<"document", "doc">>)
SourceBody(c) ==
    IF StreamInput(c)
    THEN args[c].file.data.body
    ELSE SourceFiles[abspath(args[c].filename)].data.body

\* The elements the call returns when it runs alone: the paragraphs of its own
\* input, with the metadata its own arguments and its own timestamp give.
AloneElements(c) ==
    LET fname == IF StreamInput(c) THEN args[c].metadata_filename
                 ELSE IF Truthy(args[c].metadata_filename)
                      THEN args[c].metadata_filename ELSE SourceBaseName(c)
    IN  List([i \in 1..Len(SourceBody(c)) |->
                [text |-> SourceBody(c)[i],
                 filename |-> fname,
                 filetype |-> "application/msword",
                 last_modified |-> Or(args[c].metadata_last_modified, last_modified[c]),
                 chunked |-> args[c].kwargs \cap PostProcessingOptions # {}]])

\* The call writes and partitions only inside its own directory, reads no file
\* another call wrote, keeps its directory and files until it removes them
\* itself, and returns what it returns alone.
Isolated(c) ==
    /\ \A e \in Events(c, "write") : e.arg.dir = target_dir[c].dir
    /\ \A e \in Events(c, "convert_office_doc") : e.by \in {0, c}
    /\ \A e \in Events(c, "partition_docx") :
        e.arg.dir = target_dir[c].dir /\ e.by \in {0, c}
    /\ \A p \in DOMAIN files :
        files[p].by = c => (p.dir = target_dir[c].dir /\ dirs[p.dir] = c)
    /\ \A p \in DOMAIN SourceFiles : p \in DOMAIN files /\ files[p] = SourceFiles[p]
    /\ pc[c] \in {"write", "convert", "partition_docx", "cleanup"}
       => /\ dirs[target_dir[c].dir] = c
          /\ \A o \in CallIds \ {c} :
              pc[o] \in {"write", "convert", "partition_docx", "cleanup"}
              => target_dir[o] # target_dir[c]
    /\ (pc[c] = "convert" /\ StreamInput(c))
       => /\ StagedPath(c) \in DOMAIN files
          /\ files[StagedPath(c)] = [data |-> args[c].file.data, by |-> c]
    /\ pc[c] = "partition_docx"
       => /\ target_file_path[c] \in DOMAIN files
          /\ files[target_file_path[c]] = [data |-> Docx(SourceBody(c)), by |-> c]
    /\ pc[c] = "returned" => elements[c] = AloneElements(c)

\* C8 as stated: under every interleaving of two concurrent calls each call
\* writes, converts and partitions only files inside its own temporary
\* directory, no call reads or removes a file the other staged or converted,
\* and each call's result is what it is alone.
C8_OnlyOwnDirectory ==
    \A c \in CallIds :
        /\ Isolated(c)
        /\ \A e \in Events(c, "convert_office_doc") : e.arg.dir = target_dir[c].dir

\* C8 amended: each call writes and partitions only files inside its own
\* temporary directory; the file it converts is its own staged document.doc
\* there for stream input and the caller's source path, which no call writes,
\* for path input, the converted file going into its own directory; no call
\* reads or removes a file the other staged or converted; and each call's
\* result is what it is alone.
C8_NoInterference ==
    \A c \in CallIds :
        /\ Isolated(c)
        /\ \A e \in Events(c, "convert_office_doc") :
            IF StreamInput(c) THEN e.arg = StagedPath(c) ELSE e.arg = args[c].filename

\* Two stream calls with different contents have both staged document.doc and
\* converted it at the same time.
C8_Witness ==
    /\ pc[1] = "partition_docx" /\ pc[2] = "partition_docx"
    /\ StreamInput(1) /\ StreamInput(2)
    /\ args[1].file # args[2].file
    /\ source_file_path[1].name = source_file_path[2].name

----
\* C9: when the converter or the partitioner fails, the call raises that same
\* failure and returns no elements; after a converter failure the partitioner
\* is never invoked; neither is invoked twice; a call that returns returns
\* all the elements of its document.
C9_FailurePropagates ==
    \A c \in CallIds :
        /\ Count(c, "convert_office_doc") <= 1
        /\ Count(c, "partition_docx") <= 1
        /\ (\E e \in Events(c, "convert_office_doc") : ~e.ok)
           => /\ pc[c] \in {"cleanup", "raised"}
              /\ error[c] = ConversionError
              /\ elements[c] = None
              /\ docx_call[c] = None
              /\ ~Has(c, "partition_docx")
        /\ (\E e \in Events(c, "partition_docx") : ~e.ok)
           => /\ pc[c] \in {"cleanup", "raised"}
              /\ error[c] = PartitionError
              /\ elements[c] = None
        /\ pc[c] = "raised" => elements[c] = None /\ error[c] # None
        /\ pc[c] = "returned"
           => /\ error[c] = None
              /\ Len(elements[c].items) = Len(SourceBody(c))

\* A call whose converter failed has raised the conversion failure, its
\* directory removed.
C9_Witness ==
    \E c \in CallIds :
        /\ pc[c] = "raised" /\ error[c] = ConversionError
        /\ Has(c, "rmtree")
        /\ \E e \in Events(c, "convert_office_doc") : ~e.ok

----
\* The order of the steps of a call.

Rank(op) ==
    CASE op = "get_last_modified_date" -> 1
      [] op = "exists" -> 2
      [] op = "mkdtemp" -> 3
      [] op = "write" -> 4
      [] op = "convert_office_doc" -> 5
      [] op = "partition_docx" -> 6
      [] op = "rmtree" -> 7
      [] op = "set_filename" -> 8
\* Each step at most once, in the order of Rank.
InOrder(c) ==
    \A i, j \in 1..Len(log[c]) : i < j => Rank(log[c][i].op) < Rank(log[c][j].op)

\* The call got past validation: it is inside or after the with block.
PassedValidation(c) ==
    \/ pc[c] \in {"TemporaryDirectory", "write", "convert", "partition_docx",
                  "cleanup", "set_filename", "returned"}
    \/ pc[c] = "raised" /\ error[c] \in {StreamError, ConversionError, PartitionError}

\* <temporary directory>/<source base name without extension>.docx
ExpectedTarget(c) ==
    IF StreamInput(c)
    THEN Str(target_dir[c].dir, <<"document", "docx">>)
    ELSE Str(target_dir[c].dir, ConvertedStem(args[c].filename.name) \o <<"docx">>)

\* The order every call keeps, whether it ends well or not.
StepsInOrder(c) ==
    /\ InOrder(c)
    /\ (PassedValidation(c) /\ pc[c] # "TemporaryDirectory") => Has(c, "mkdtemp")
    /\ \A e \in Events(c, "write") : StreamInput(c) /\ e.arg = StagedPath(c)
    /\ (pc[c] = "convert" /\ StreamInput(c))
       => files[StagedPath(c)].data = args[c].file.data
    /\ \A p \in DOMAIN SourceFiles : p \in DOMAIN files /\ files[p] = SourceFiles[p]
    /\ \A e \in Events(c, "convert_office_doc") :
        /\ Has(c, "mkdtemp")
        /\ e.arg = (IF StreamInput(c) THEN StagedPath(c) ELSE args[c].filename)
        /\ StreamInput(c) => \E w \in Events(c, "write") : w.ok
        /\ (e.ok /\ pc[c] = "partition_docx") => ExpectedTarget(c) \in DOMAIN files
    /\ \A e \in Events(c, "partition_docx") :
        /\ e.arg = ExpectedTarget(c)
        /\ \E v \in Events(c, "convert_office_doc") : v.ok
        /\ pc[c] = "cleanup" => dirs[target_dir[c].dir] = c
    /\ Has(c, "set_filename")
       => /\ StreamInput(c)
          /\ Has(c, "rmtree")
          /\ \A d \in TmpNames : dirs[d] # c
    /\ (Done(c) /\ Has(c, "mkdtemp")) => Has(c, "rmtree")
    /\ pc[c] = "returned"
       => /\ Count(c, "partition_docx") = 1
          /\ StreamInput(c) => Count(c, "write") = 1

====
